---- MODULE Spec2Model ----
(***************************************************************************)
(* Model of modbus_inrush_current_analyzer.py: the ModbusGUI acquisition   *)
(* pipeline.  Two kinds of thread run: the Tk control thread (button       *)
(* handlers and the 50 ms queue pump, one handler at a time) and the       *)
(* daemon worker threads created by on_start, which run _worker_loop.      *)
(* A thread's position is its pc; a step is one access to state the two    *)
(* kinds of thread share, so every interleaving the interpreter can        *)
(* produce between such accesses is a behaviour of the model.              *)
(*                                                                         *)
(* Representation.  Python None is None (-1; every value it stands beside  *)
(* is a non-negative integer).  Currents are exact integers: milliamps are *)
(* kept in units of 1e-6 mA (0.000610 mA per code = 610 units), amperes in *)
(* units of 1/16e6 A; no code of 0..65535 lies within float error of a     *)
(* comparison or rounding boundary, so the integer results are the float   *)
(* results.  A timestamp is the value of a clock that advances with every  *)
(* answered read.  A TrendPoint keeps its timestamp and the value of the   *)
(* one populated slot.  Status texts are short tags.  The trend capacity   *)
(* is window_seconds * points_per_second as in the code, with the seconds  *)
(* of the four window labels divided by 10 and PointsPerSecond points per  *)
(* second, so that a buffer of a few points reaches its capacity.          *)
(***************************************************************************)
EXTENDS Integers, Sequences, FiniteSets, TLC

\* ---------------------------------------------------------------- bounds
\* Answered reads in one behaviour (later reads fail, as a read may).
MaxTicks == 3
\* Worker threads on_start may create in one behaviour.
MaxWorkers == 2
\* Samples per second of the scaled trend window (the program's is 100).
PointsPerSecond == 1
\* _warmup_to_skip, the configurable warm-up count (the program's default is 10).
WarmupToSkip == 1
\* Handlers the user starts in one behaviour.
MaxPresses == 4
\* Points of a history given to the changes-only pass of on_save_excel.
MaxHistory == 4

\* ------------------------------------------------------ program constants
None == -1
SpikeThreshold == 10
AmpMax == 63
MicroAmpPerCode == 610
MinMicroAmp == 3800000
MaxMicroAmp == 30000000
ZeroMicroAmp == 4000000
AmpDenominator == 16000000
GarbageCodes == {65535, 65534, 0, 32767}

\* Register values the transport answers with in the concurrent model:
\* a garbage code, a code for 5 A and a code above 20 mA (63 A).
RawCodes == {32767, 8639, 40000}
\* All register values, and a sample of them that decodes to every 0..63 A.
AllCodes == 0..65535
StrideCodes == {6200 + 100 * i : i \in 0..440}
\* Trend-window labels of the combobox, in scaled seconds.
WindowLabels == {"10 s", "30 s", "60 s", "5 min"}

Threads == 1..MaxWorkers

VARIABLES
    \* --- ModbusGUI fields
    data_queue,        \* queue.Queue of messages, oldest first
    worker_thread,     \* id of the Thread object held, 0 for None
    stop_event,        \* threading.Event
    reader_set,        \* self.reader is not None
    client_open,       \* self.reader.client is set and connected
    is_connected,
    window_seconds,
    trend_buffer_max,
    series_all,        \* <<[ts, a]>>
    trend_buffer,      \* <<[ts, a]>>
    _muted,
    _warmup_left,
    _last_a_int,
    status_var,
    btn,               \* which of the four state-switched buttons are enabled
    \* --- threads
    ctl_pc,            \* control thread: "idle" or the step of the running handler
    ctl_h,             \* the handler on_stop was called from
    ctl_tmp,           \* the slice _process_queue_item is about to assign
    w,                 \* worker threads: [pc, raw, ts, A, a_int, next_ui_push, tmp, nstatus, late]
    nthreads,          \* Thread objects created so far
    clock,             \* datetime.now()
    \* --- observation
    g_valid,           \* non-absent Readings that reached the gate in this run
    g_passed,          \* Readings of this run the gate let through
    g_run,             \* this run's converted samples, and whether it was cleared
    call,              \* a direct call of a pure function: its arguments and result
    presses            \* handlers the user has started (buttons, combobox, window close)

vars == <<data_queue, worker_thread, stop_event, reader_set, client_open, is_connected,
          window_seconds, trend_buffer_max, series_all, trend_buffer, _muted,
          _warmup_left, _last_a_int, status_var, btn, ctl_pc, ctl_h, ctl_tmp, w,
          nthreads, clock, g_valid, g_passed, g_run, call, presses>>

gui == <<data_queue, worker_thread, stop_event, reader_set, client_open, is_connected,
         window_seconds, trend_buffer_max, series_all, trend_buffer, _muted,
         _warmup_left, _last_a_int, status_var, btn, ctl_pc, ctl_h, ctl_tmp, w,
         nthreads, clock, g_valid, g_passed, g_run>>

\* ------------------------------------------------------------- helpers
Abs(x) == IF x < 0 THEN -x ELSE x

Max(a, b) == IF a > b THEN a ELSE b

Min(a, b) == IF a < b THEN a ELSE b

\* s[-n:] for n >= 1
LastN(s, n) == IF Len(s) <= n THEN s ELSE SubSeq(s, Len(s) - n + 1, Len(s))

\* ------------------------------------------------- conversion (374-414)
\* 0.000610 * code, in 1e-6 mA
_code_to_mA(code) == MicroAmpPerCode * code

\* (I_mA - 4.0) * 63/16, as a numerator over AmpDenominator
_mA_to_A(I) == (I - ZeroMicroAmp) * AmpMax

\* max(0.0, min(63.0, A))
ClampOneAbove(A) == Max(0, Min((AmpMax + 1) * AmpDenominator, A))

Clamp(A) == Max(0, Min(AmpMax * AmpDenominator, A))

\* int(round(A)) for A >= 0
RoundTruncating(A) == A \div AmpDenominator

Round(A) == (2 * A + AmpDenominator) \div (2 * AmpDenominator)

\* _code_to_A_int up to the rounding: None, or the candidate A_int
ConvertStage(raw_code) ==
    LET code == raw_code % 65536
        I == _code_to_mA(code)
    IN IF code \in GarbageCodes THEN None
       ELSE IF I < MinMicroAmp \/ I > MaxMicroAmp THEN None
       ELSE Round(Clamp(_mA_to_A(I)))

\* abs(A_int - self._last_a_int) > 10
IsSpikeAtTen(A_int, last) == Abs(A_int - last) >= SpikeThreshold

IsSpike(A_int, last) == Abs(A_int - last) > SpikeThreshold

\* _code_to_A_int run without interruption: the value returned and the
\* _last_a_int it leaves
_code_to_A_int(raw_code, last) ==
    IF raw_code = None THEN [ret |-> None, last |-> last]
    ELSE LET A_int == ConvertStage(raw_code)
         IN IF A_int = None THEN [ret |-> None, last |-> last]
            ELSE IF last # None /\ IsSpike(A_int, last)
                 THEN [ret |-> last, last |-> last]
                 ELSE [ret |-> A_int, last |-> A_int]

\* ------------------------------------------------------- trend window
\* _on_trend_window_change's label table, seconds / 10
LabelSeconds(label) ==
    CASE label = "10 s" -> 1
      [] label = "30 s" -> 3
      [] label = "60 s" -> 6
      [] label = "5 min" -> 30

\* _set_trend_window's capacity
Capacity(seconds) == seconds * PointsPerSecond

\* ------------------------------------------------------------ messages
Point(ts, a) == [ts |-> ts, a |-> a]

ValuesMsg(ts, a) == [kind |-> "values", ts |-> ts, a |-> a, text |-> ""]

StatusMsg(text) == [kind |-> "status", ts |-> None, a |-> None, text |-> text]

\* ------------------------------------------------------------- threads
NoThread ==
    [pc |-> "none", raw |-> None, ts |-> None, A |-> None, a_int |-> None,
     next_ui_push |-> "start", tmp |-> <<>>, nstatus |-> 0, late |-> FALSE]

\* what is observed of a run: the candidates _code_to_A_int has converted
\* since on_start, whether on_clear_data has run since, and how many
\* messages at the head of data_queue were put before the trend buffer was
\* last emptied (stale) and before the last on_start (stale_run)
NoRun == [cands |-> <<>>, cleared |-> FALSE, stale |-> 0, stale_run |-> 0]

\* Thread.is_alive()
Alive(t) == w[t].pc \notin {"none", "dead", "killed"}

\* the worker is inside its while loop
InLoop(t) ==
    w[t].pc \in {"test", "read", "conv", "cmp", "ret_last", "store", "gate",
                 "route", "trim", "trim_store"}

\* the end of a tick: the locals are dead until the next tick assigns them
NextTick(r) ==
    [r EXCEPT !.pc = "test", !.raw = None, !.ts = None, !.A = None, !.a_int = None]

\* the thread writes a retention buffer or a value message: late if it has
\* already put its status message
Output(r) == [r EXCEPT !.late = (r.nstatus > 0)]

\* ---------------------------------------------- _worker_loop (651-694)
\* 659: while not self.stop_event.is_set()
W_test_ignoring_stop(t) ==
    /\ w[t].pc = "test"
    /\ w' = [w EXCEPT ![t].pc = "read"]
    /\ UNCHANGED <<data_queue, worker_thread, stop_event, reader_set, client_open,
                   is_connected, window_seconds, trend_buffer_max, series_all,
                   trend_buffer, _muted, _warmup_left, _last_a_int, status_var, btn,
                   ctl_pc, ctl_h, ctl_tmp, nthreads, clock, g_valid, g_passed, g_run, call, presses>>

W_test(t) ==
    /\ w[t].pc = "test"
    /\ w' = [w EXCEPT ![t].pc = IF stop_event THEN "restore" ELSE "read"]
    /\ UNCHANGED <<data_queue, worker_thread, stop_event, reader_set, client_open,
                   is_connected, window_seconds, trend_buffer_max, series_all,
                   trend_buffer, _muted, _warmup_left, _last_a_int, status_var, btn,
                   ctl_pc, ctl_h, ctl_tmp, nthreads, clock, g_valid, g_passed, g_run, call, presses>>

\* 661-662: raw = self.reader.read_ch(address, 1); ts = datetime.now().
\* read_ch (60-70) answers None without a connected client or on any error.
W_read(t) ==
    /\ w[t].pc = "read"
    /\ \E raw \in RawCodes \cup {None} :
         /\ raw # None => (reader_set /\ client_open /\ clock < MaxTicks)
         /\ clock' = IF raw = None THEN clock ELSE clock + 1
         /\ w' = [w EXCEPT ![t].pc = "conv", ![t].raw = raw, ![t].ts = clock']
    /\ UNCHANGED <<data_queue, worker_thread, stop_event, reader_set, client_open,
                   is_connected, window_seconds, trend_buffer_max, series_all,
                   trend_buffer, _muted, _warmup_left, _last_a_int, status_var, btn,
                   ctl_pc, ctl_h, ctl_tmp, nthreads, g_valid, g_passed, g_run, call, presses>>

\* 664-666 and _code_to_A_int 388-410: the conversion, and the first test
\* of the anti-spike condition, self._last_a_int is not None
W_conv(t) ==
    /\ w[t].pc = "conv"
    /\ LET A_int == IF w[t].raw = None THEN None ELSE ConvertStage(w[t].raw)
       IN /\ w' = [w EXCEPT ![t].A = A_int,
                            ![t].pc = IF A_int = None THEN "gate"
                                      ELSE IF _last_a_int # None THEN "cmp"
                                      ELSE "store"]
          /\ g_run' = IF A_int = None THEN g_run
                       ELSE [g_run EXCEPT !.cands = Append(g_run.cands, A_int)]
    /\ UNCHANGED <<data_queue, worker_thread, stop_event, reader_set, client_open,
                   is_connected, window_seconds, trend_buffer_max, series_all,
                   trend_buffer, _muted, _warmup_left, _last_a_int, status_var, btn,
                   ctl_pc, ctl_h, ctl_tmp, nthreads, clock, g_valid, g_passed, call, presses>>

\* 410: abs(A_int - self._last_a_int) > 10, a second read of _last_a_int.
\* If on_clear_data has set it to None since the first, the subtraction
\* raises TypeError, which 689 catches outside the while loop.
W_cmp(t) ==
    /\ w[t].pc = "cmp"
    /\ w' = [w EXCEPT ![t].pc = IF _last_a_int = None THEN "restore"
                                ELSE IF IsSpike(w[t].A, _last_a_int) THEN "ret_last"
                                ELSE "store"]
    /\ UNCHANGED <<data_queue, worker_thread, stop_event, reader_set, client_open,
                   is_connected, window_seconds, trend_buffer_max, series_all,
                   trend_buffer, _muted, _warmup_left, _last_a_int, status_var, btn,
                   ctl_pc, ctl_h, ctl_tmp, nthreads, clock, g_valid, g_passed, g_run, call, presses>>

\* 411: return self._last_a_int
W_ret_last_moving_baseline(t) ==
    /\ w[t].pc = "ret_last"
    /\ _last_a_int' = w[t].A
    /\ w' = [w EXCEPT ![t].pc = "gate", ![t].a_int = _last_a_int]
    /\ UNCHANGED <<data_queue, worker_thread, stop_event, reader_set, client_open,
                   is_connected, window_seconds, trend_buffer_max, series_all,
                   trend_buffer, _muted, _warmup_left, status_var, btn,
                   ctl_pc, ctl_h, ctl_tmp, nthreads, clock, g_valid, g_passed, g_run, call, presses>>

W_ret_last_returning_candidate(t) ==
    /\ w[t].pc = "ret_last"
    /\ w' = [w EXCEPT ![t].pc = "gate", ![t].a_int = w[t].A]
    /\ UNCHANGED <<data_queue, worker_thread, stop_event, reader_set, client_open,
                   is_connected, window_seconds, trend_buffer_max, series_all,
                   trend_buffer, _muted, _warmup_left, _last_a_int, status_var, btn,
                   ctl_pc, ctl_h, ctl_tmp, nthreads, clock, g_valid, g_passed, g_run, call, presses>>

W_ret_last(t) ==
    /\ w[t].pc = "ret_last"
    /\ w' = [w EXCEPT ![t].pc = "gate", ![t].a_int = _last_a_int]
    /\ UNCHANGED <<data_queue, worker_thread, stop_event, reader_set, client_open,
                   is_connected, window_seconds, trend_buffer_max, series_all,
                   trend_buffer, _muted, _warmup_left, _last_a_int, status_var, btn,
                   ctl_pc, ctl_h, ctl_tmp, nthreads, clock, g_valid, g_passed, g_run, call, presses>>

\* 413-414: self._last_a_int = A_int; return A_int
W_store(t) ==
    /\ w[t].pc = "store"
    /\ _last_a_int' = w[t].A
    /\ w' = [w EXCEPT ![t].pc = "gate", ![t].a_int = w[t].A]
    /\ UNCHANGED <<data_queue, worker_thread, stop_event, reader_set, client_open,
                   is_connected, window_seconds, trend_buffer_max, series_all,
                   trend_buffer, _muted, _warmup_left, status_var, btn,
                   ctl_pc, ctl_h, ctl_tmp, nthreads, clock, g_valid, g_passed, g_run, call, presses>>

\* 669-673: the warm-up gate and the append to series_all; 685-687 the sleep
W_gate_never_counting(t) ==
    /\ w[t].pc = "gate"
    /\ IF w[t].a_int = None
       THEN /\ w' = [w EXCEPT ![t] = NextTick(w[t])]
            /\ UNCHANGED <<_warmup_left, series_all, g_valid, g_passed>>
       ELSE IF _warmup_left > 0
       THEN /\ g_valid' = g_valid + 1
            /\ w' = [w EXCEPT ![t] = NextTick(w[t])]
            /\ UNCHANGED <<_warmup_left, series_all, g_passed>>
       ELSE /\ series_all' = Append(series_all, Point(w[t].ts, w[t].a_int))
            /\ g_valid' = g_valid + 1
            /\ g_passed' = g_passed + 1
            /\ w' = [w EXCEPT ![t] = Output([w[t] EXCEPT !.pc = "route"])]
            /\ UNCHANGED _warmup_left
    /\ UNCHANGED <<data_queue, worker_thread, stop_event, reader_set, client_open,
                   is_connected, window_seconds, trend_buffer_max,
                   trend_buffer, _muted, _last_a_int, status_var, btn,
                   ctl_pc, ctl_h, ctl_tmp, nthreads, clock, g_run, call, presses>>

W_gate(t) ==
    /\ w[t].pc = "gate"
    /\ IF w[t].a_int = None
       THEN /\ w' = [w EXCEPT ![t] = NextTick(w[t])]
            /\ UNCHANGED <<_warmup_left, series_all, g_valid, g_passed>>
       ELSE IF _warmup_left > 0
       THEN /\ _warmup_left' = _warmup_left - 1
            /\ g_valid' = g_valid + 1
            /\ w' = [w EXCEPT ![t] = NextTick(w[t])]
            /\ UNCHANGED <<series_all, g_passed>>
       ELSE /\ series_all' = Append(series_all, Point(w[t].ts, w[t].a_int))
            /\ g_valid' = g_valid + 1
            /\ g_passed' = g_passed + 1
            /\ w' = [w EXCEPT ![t] = Output([w[t] EXCEPT !.pc = "route"])]
            /\ UNCHANGED _warmup_left
    /\ UNCHANGED <<data_queue, worker_thread, stop_event, reader_set, client_open,
                   is_connected, window_seconds, trend_buffer_max,
                   trend_buffer, _muted, _last_a_int, status_var, btn,
                   ctl_pc, ctl_h, ctl_tmp, nthreads, clock, g_run, call, presses>>

\* 674-681: time.monotonic() >= next_ui_push holds at the first value of the
\* loop (next_ui_push is the loop's start time) and afterwards whenever 80 ms
\* have passed since the last push: put the value message, or append the
\* TrendPoint
W_route(t) ==
    /\ w[t].pc = "route"
    /\ \E reached \in (IF w[t].next_ui_push = "start" THEN {TRUE} ELSE BOOLEAN) :
         IF reached
         THEN /\ data_queue' = Append(data_queue, ValuesMsg(w[t].ts, w[t].a_int))
              /\ w' = [w EXCEPT ![t] = Output(NextTick([w[t] EXCEPT !.next_ui_push = "later"]))]
              /\ UNCHANGED trend_buffer
         ELSE /\ trend_buffer' = Append(trend_buffer, Point(w[t].ts, w[t].a_int))
              /\ w' = [w EXCEPT ![t] = Output([w[t] EXCEPT !.pc = "trim"])]
              /\ UNCHANGED data_queue
    /\ UNCHANGED <<worker_thread, stop_event, reader_set, client_open,
                   is_connected, window_seconds, trend_buffer_max, series_all,
                   _muted, _warmup_left, _last_a_int, status_var, btn,
                   ctl_pc, ctl_h, ctl_tmp, nthreads, clock, g_valid, g_passed, g_run, call, presses>>

\* 682-683, the right-hand side: the test and the slice
W_trim(t) ==
    /\ w[t].pc = "trim"
    /\ IF Len(trend_buffer) > trend_buffer_max
       THEN w' = [w EXCEPT ![t].pc = "trim_store",
                           ![t].tmp = LastN(trend_buffer, trend_buffer_max)]
       ELSE w' = [w EXCEPT ![t] = NextTick(w[t])]
    /\ UNCHANGED <<data_queue, worker_thread, stop_event, reader_set, client_open,
                   is_connected, window_seconds, trend_buffer_max, series_all,
                   trend_buffer, _muted, _warmup_left, _last_a_int, status_var, btn,
                   ctl_pc, ctl_h, ctl_tmp, nthreads, clock, g_valid, g_passed, g_run, call, presses>>

\* 683, the assignment self.trend_buffer = ...
W_trim_store(t) ==
    /\ w[t].pc = "trim_store"
    /\ trend_buffer' = w[t].tmp
    /\ w' = [w EXCEPT ![t] = Output(NextTick([w[t] EXCEPT !.tmp = <<>>]))]
    /\ UNCHANGED <<data_queue, worker_thread, stop_event, reader_set, client_open,
                   is_connected, window_seconds, trend_buffer_max, series_all,
                   _muted, _warmup_left, _last_a_int, status_var, btn,
                   ctl_pc, ctl_h, ctl_tmp, nthreads, clock, g_valid, g_passed, g_run, call, presses>>

\* 693 and _restore_channels 607-609: the test
W_restore(t) ==
    /\ w[t].pc = "restore"
    /\ IF ~_muted \/ ~(reader_set /\ is_connected)
       THEN /\ _muted' = FALSE
            /\ w' = [w EXCEPT ![t] = [NextTick(w[t]) EXCEPT !.pc = "put_status"]]
       ELSE /\ w' = [w EXCEPT ![t] = [NextTick(w[t]) EXCEPT !.pc = "restore_io"]]
            /\ UNCHANGED _muted
    /\ UNCHANGED <<data_queue, worker_thread, stop_event, reader_set, client_open,
                   is_connected, window_seconds, trend_buffer_max, series_all,
                   trend_buffer, _warmup_left, _last_a_int, status_var, btn,
                   ctl_pc, ctl_h, ctl_tmp, nthreads, clock, g_valid, g_passed, g_run, call, presses>>

\* _restore_channels 610-616: the ten write_reg calls, then _muted = False
W_restore_io(t) ==
    /\ w[t].pc = "restore_io"
    /\ _muted' = FALSE
    /\ w' = [w EXCEPT ![t].pc = "put_status"]
    /\ UNCHANGED <<data_queue, worker_thread, stop_event, reader_set, client_open,
                   is_connected, window_seconds, trend_buffer_max, series_all,
                   trend_buffer, _warmup_left, _last_a_int, status_var, btn,
                   ctl_pc, ctl_h, ctl_tmp, nthreads, clock, g_valid, g_passed, g_run, call, presses>>

\* 694: the final status message; the thread ends
W_put_status(t) ==
    /\ w[t].pc = "put_status"
    /\ data_queue' = Append(data_queue,
                            StatusMsg(IF is_connected THEN "Connected" ELSE "Disconnected"))
    /\ w' = [w EXCEPT ![t].pc = "dead", ![t].nstatus = w[t].nstatus + 1]
    /\ UNCHANGED <<worker_thread, stop_event, reader_set, client_open,
                   is_connected, window_seconds, trend_buffer_max, series_all,
                   trend_buffer, _muted, _warmup_left, _last_a_int, status_var, btn,
                   ctl_pc, ctl_h, ctl_tmp, nthreads, clock, g_valid, g_passed, g_run, call, presses>>

WorkerStep(t) ==
    \/ W_test(t)
    \/ W_read(t)
    \/ W_conv(t)
    \/ W_cmp(t)
    \/ W_ret_last(t)
    \/ W_store(t)
    \/ W_gate(t)
    \/ W_route(t)
    \/ W_trim(t)
    \/ W_trim_store(t)
    \/ W_restore(t)
    \/ W_restore_io(t)
    \/ W_put_status(t)

\* ------------------------------------------------ control thread: state
\* the user starts a handler
Press == presses < MaxPresses /\ presses' = presses + 1

\* the control thread is inside a call of the transport (handshake read,
\* channel mute or restore writes, disconnect)
CtlInTransport == ctl_pc \in {"handshake", "start_mute", "c_restore_io", "c_disc"}

\* the worker is inside a call of the transport (read_ch, restore writes)
WorkerInTransport(t) == w[t].pc \in {"read", "restore_io"}

\* self.worker_thread and self.worker_thread.is_alive()
WorkerThreadAlive == worker_thread # 0 /\ Alive(worker_thread)

\* ----------------------------------------------- on_connect (529-571)
\* 530-549: the connection is opened (a failed connect() leaves the new
\* reader without a client and returns)
OnConnect ==
    /\ Press
    /\ ctl_pc = "idle"
    /\ btn.connect
    /\ ~is_connected
    /\ reader_set' = TRUE
    /\ \E connected \in BOOLEAN :
         IF connected
         THEN /\ client_open' = TRUE
              /\ ctl_pc' = "handshake"
              /\ UNCHANGED status_var
         ELSE /\ client_open' = FALSE
              /\ status_var' = "ConnectError"
              /\ UNCHANGED ctl_pc
    /\ UNCHANGED <<data_queue, worker_thread, stop_event, is_connected, window_seconds,
                   trend_buffer_max, series_all, trend_buffer, _muted, _warmup_left,
                   _last_a_int, btn, ctl_h, ctl_tmp, w, nthreads, clock, g_valid,
                   g_passed, g_run, call>>

\* 551-571: the handshake reads, and their outcome
OnConnect_handshake ==
    /\ ctl_pc = "handshake"
    /\ ctl_pc' = "idle"
    /\ \E ok \in BOOLEAN :
         IF ok
         THEN /\ is_connected' = TRUE
              /\ status_var' = "Connected"
              /\ btn' = [btn EXCEPT !.connect = FALSE, !.disconnect = TRUE, !.start = TRUE]
              /\ UNCHANGED client_open
         ELSE /\ client_open' = FALSE
              /\ status_var' = "Disconnected"
              /\ UNCHANGED <<is_connected, btn>>
    /\ UNCHANGED <<data_queue, worker_thread, stop_event, reader_set, window_seconds,
                   trend_buffer_max, series_all, trend_buffer, _muted, _warmup_left,
                   _last_a_int, ctl_h, ctl_tmp, w, nthreads, clock, g_valid,
                   g_passed, g_run, call, presses>>

\* ------------------------------------------------- on_start (619-649)
\* 620-630: the early returns
StartAllowedWhileAlive == is_connected /\ reader_set

StartAllowed == ~WorkerThreadAlive /\ is_connected /\ reader_set

\* 632-637: the buffers, the warm-up counter and the spike baseline are reset
OnStart ==
    /\ Press
    /\ ctl_pc = "idle"
    /\ btn.start
    /\ StartAllowed
    /\ nthreads < MaxWorkers
    /\ series_all' = <<>>
    /\ trend_buffer' = <<>>
    /\ _warmup_left' = WarmupToSkip
    /\ _last_a_int' = None
    /\ g_valid' = 0
    /\ g_passed' = 0
    /\ g_run' = [NoRun EXCEPT !.stale = Len(data_queue), !.stale_run = Len(data_queue)]
    /\ ctl_pc' = "start_mute"
    /\ UNCHANGED <<data_queue, worker_thread, stop_event, reader_set, client_open,
                   is_connected, window_seconds, trend_buffer_max, _muted, status_var,
                   btn, ctl_h, ctl_tmp, w, nthreads, clock, call>>

\* 640 and _mute_others_and_enable_selected 590-603
OnStart_mute ==
    /\ ctl_pc = "start_mute"
    /\ _muted' = IF reader_set /\ is_connected THEN TRUE ELSE _muted
    /\ ctl_pc' = "start_thread"
    /\ UNCHANGED <<data_queue, worker_thread, stop_event, reader_set, client_open,
                   is_connected, window_seconds, trend_buffer_max, series_all,
                   trend_buffer, _warmup_left, _last_a_int, status_var, btn, ctl_h,
                   ctl_tmp, w, nthreads, clock, g_valid, g_passed, g_run, call, presses>>

\* 642-649: the stop flag is cleared and a new daemon thread started
OnStart_thread ==
    /\ ctl_pc = "start_thread"
    /\ stop_event' = FALSE
    /\ nthreads' = nthreads + 1
    /\ worker_thread' = nthreads + 1
    /\ w' = [w EXCEPT ![nthreads + 1] = [NoThread EXCEPT !.pc = "test"]]
    /\ btn' = [btn EXCEPT !.start = FALSE, !.stop = TRUE]
    /\ status_var' = "Running"
    /\ ctl_pc' = "idle"
    /\ UNCHANGED <<data_queue, reader_set, client_open, is_connected, window_seconds,
                   trend_buffer_max, series_all, trend_buffer, _muted, _warmup_left,
                   _last_a_int, ctl_h, ctl_tmp, clock, g_valid, g_passed, g_run, call, presses>>

\* -------------------------------------------------- on_stop (696-704)
\* 700-704, and the return to the caller (on_disconnect goes on at 577)
AfterStop(h) ==
    /\ btn' = [btn EXCEPT !.start = is_connected, !.stop = FALSE]
    /\ status_var' = IF is_connected THEN "Stopped" ELSE status_var
    /\ ctl_pc' = IF h = "stop" THEN "idle" ELSE "c_restore"
    /\ ctl_h' = IF h = "stop" THEN "" ELSE h

\* 697-699: with a live worker the flag is set and the thread joined
on_stop(h) ==
    /\ Press
    /\ IF WorkerThreadAlive
       THEN /\ stop_event' = TRUE
            /\ ctl_pc' = "join"
            /\ ctl_h' = h
            /\ UNCHANGED <<btn, status_var>>
       ELSE /\ AfterStop(h)
            /\ UNCHANGED stop_event
    /\ UNCHANGED <<data_queue, worker_thread, reader_set, client_open, is_connected,
                   window_seconds, trend_buffer_max, series_all, trend_buffer, _muted,
                   _warmup_left, _last_a_int, ctl_tmp, w, nthreads, clock, g_valid,
                   g_passed, g_run, call>>

OnStop ==
    /\ ctl_pc = "idle"
    /\ btn.stop
    /\ on_stop("stop")

\* 699: join returns because the thread has ended
JoinDone ==
    /\ ctl_pc = "join"
    /\ ~WorkerThreadAlive
    /\ AfterStop(ctl_h)
    /\ UNCHANGED <<data_queue, worker_thread, stop_event, reader_set, client_open,
                   is_connected, window_seconds, trend_buffer_max, series_all,
                   trend_buffer, _muted, _warmup_left, _last_a_int, ctl_tmp, w,
                   nthreads, clock, g_valid, g_passed, g_run, call, presses>>

\* 699: join(timeout=2.0) returns with the thread still alive (a read or the
\* restore writes outlast 2 s)
JoinTimeout ==
    /\ ctl_pc = "join"
    /\ WorkerThreadAlive
    /\ AfterStop(ctl_h)
    /\ UNCHANGED <<data_queue, worker_thread, stop_event, reader_set, client_open,
                   is_connected, window_seconds, trend_buffer_max, series_all,
                   trend_buffer, _muted, _warmup_left, _last_a_int, ctl_tmp, w,
                   nthreads, clock, g_valid, g_passed, g_run, call, presses>>

\* ------------------------------- on_disconnect (573-587), on_close (706-710)
OnDisconnect ==
    /\ ctl_pc = "idle"
    /\ btn.disconnect
    /\ on_stop("disconnect")

OnClose ==
    /\ ctl_pc = "idle"
    /\ on_stop("close")

\* 577 and _restore_channels 607-609: the test
OnDisconnect_restore ==
    /\ ctl_pc = "c_restore"
    /\ IF ~_muted \/ ~(reader_set /\ is_connected)
       THEN /\ _muted' = FALSE
            /\ ctl_pc' = "c_disc"
       ELSE /\ ctl_pc' = "c_restore_io"
            /\ UNCHANGED _muted
    /\ UNCHANGED <<data_queue, worker_thread, stop_event, reader_set, client_open,
                   is_connected, window_seconds, trend_buffer_max, series_all,
                   trend_buffer, _warmup_left, _last_a_int, status_var, btn, ctl_h,
                   ctl_tmp, w, nthreads, clock, g_valid, g_passed, g_run, call, presses>>

\* _restore_channels 610-616
OnDisconnect_restore_io ==
    /\ ctl_pc = "c_restore_io"
    /\ _muted' = FALSE
    /\ ctl_pc' = "c_disc"
    /\ UNCHANGED <<data_queue, worker_thread, stop_event, reader_set, client_open,
                   is_connected, window_seconds, trend_buffer_max, series_all,
                   trend_buffer, _warmup_left, _last_a_int, status_var, btn, ctl_h,
                   ctl_tmp, w, nthreads, clock, g_valid, g_passed, g_run, call, presses>>

\* 578-587: the client is closed; 710: on_close destroys the window, the
\* main loop returns and the process ends, its daemon threads with it
OnDisconnect_finish ==
    /\ ctl_pc = "c_disc"
    /\ client_open' = IF reader_set THEN FALSE ELSE client_open
    /\ is_connected' = FALSE
    /\ status_var' = "Disconnected"
    /\ btn' = [btn EXCEPT !.connect = TRUE, !.disconnect = FALSE, !.start = FALSE]
    /\ ctl_h' = ""
    /\ IF ctl_h = "close"
       THEN /\ ctl_pc' = "closed"
            /\ w' = [t \in Threads |-> IF Alive(t) THEN [w[t] EXCEPT !.pc = "killed"] ELSE w[t]]
       ELSE /\ ctl_pc' = "idle"
            /\ UNCHANGED w
    /\ UNCHANGED <<data_queue, worker_thread, stop_event, reader_set, window_seconds,
                   trend_buffer_max, series_all, trend_buffer, _muted, _warmup_left,
                   _last_a_int, ctl_tmp, nthreads, clock, g_valid, g_passed, g_run, call, presses>>

\* --------------------------------------------- on_clear_data (712-717)
\* 713: self.series_all.clear()
OnClearData ==
    /\ Press
    /\ ctl_pc = "idle"
    /\ series_all' = <<>>
    /\ g_run' = [g_run EXCEPT !.cleared = TRUE]
    /\ ctl_pc' = "clear_tb"
    /\ UNCHANGED <<data_queue, worker_thread, stop_event, reader_set, client_open,
                   is_connected, window_seconds, trend_buffer_max, trend_buffer, _muted,
                   _warmup_left, _last_a_int, status_var, btn, ctl_h, ctl_tmp, w,
                   nthreads, clock, g_valid, g_passed, call>>

\* 714: self.trend_buffer.clear()
OnClearData_trend ==
    /\ ctl_pc = "clear_tb"
    /\ trend_buffer' = <<>>
    /\ g_run' = [g_run EXCEPT !.stale = Len(data_queue)]
    /\ ctl_pc' = "clear_last"
    /\ UNCHANGED <<data_queue, worker_thread, stop_event, reader_set, client_open,
                   is_connected, window_seconds, trend_buffer_max, series_all, _muted,
                   _warmup_left, _last_a_int, status_var, btn, ctl_h, ctl_tmp, w,
                   nthreads, clock, g_valid, g_passed, call, presses>>

\* 715-717: self._last_a_int = None
OnClearData_last ==
    /\ ctl_pc = "clear_last"
    /\ _last_a_int' = None
    /\ ctl_pc' = "idle"
    /\ UNCHANGED <<data_queue, worker_thread, stop_event, reader_set, client_open,
                   is_connected, window_seconds, trend_buffer_max, series_all,
                   trend_buffer, _muted, _warmup_left, status_var, btn, ctl_h, ctl_tmp,
                   w, nthreads, clock, g_valid, g_passed, g_run, call, presses>>

\* ------------------------- _set_trend_window, _on_trend_window_change (261-271)
_set_trend_window(seconds) ==
    /\ window_seconds' = seconds
    /\ trend_buffer_max' = Capacity(seconds)

OnTrendWindowChange ==
    /\ Press
    /\ ctl_pc = "idle"
    /\ \E label \in WindowLabels : _set_trend_window(LabelSeconds(label))
    /\ UNCHANGED <<data_queue, worker_thread, stop_event, reader_set, client_open,
                   is_connected, series_all, trend_buffer, _muted, _warmup_left,
                   _last_a_int, status_var, btn, ctl_pc, ctl_h, ctl_tmp, w, nthreads,
                   clock, g_valid, g_passed, g_run, call>>

\* ----------------- _schedule_queue_pump, _process_queue_item (347-371)
\* 350-351, 357-366, 370-371: one get_nowait of the pump's loop; an empty
\* queue ends the loop, a value message is appended to the trend buffer, a
\* status message sets the status text
Pump ==
    /\ \/ ctl_pc = "idle" /\ data_queue # <<>>
       \/ ctl_pc = "pump"
    /\ IF data_queue = <<>>
       THEN /\ ctl_pc' = "idle"
            /\ UNCHANGED <<data_queue, trend_buffer, status_var, g_run>>
       ELSE LET item == Head(data_queue)
            IN /\ data_queue' = Tail(data_queue)
               /\ g_run' = [g_run EXCEPT !.stale = Max(0, g_run.stale - 1),
                                          !.stale_run = Max(0, g_run.stale_run - 1)]
               /\ IF item.kind = "values"
                  THEN /\ trend_buffer' = Append(trend_buffer, Point(item.ts, item.a))
                       /\ ctl_pc' = "pump_trim"
                       /\ UNCHANGED status_var
                  ELSE /\ status_var' = item.text
                       /\ ctl_pc' = "pump"
                       /\ UNCHANGED trend_buffer
    /\ UNCHANGED <<worker_thread, stop_event, reader_set, client_open, is_connected,
                   window_seconds, trend_buffer_max, series_all, _muted, _warmup_left,
                   _last_a_int, btn, ctl_h, ctl_tmp, w, nthreads, clock, g_valid,
                   g_passed, call, presses>>

\* 367-368, the right-hand side: the test and the slice
Pump_trim ==
    /\ ctl_pc = "pump_trim"
    /\ IF Len(trend_buffer) > trend_buffer_max
       THEN /\ ctl_tmp' = LastN(trend_buffer, trend_buffer_max)
            /\ ctl_pc' = "pump_store"
       ELSE /\ ctl_pc' = "pump"
            /\ UNCHANGED ctl_tmp
    /\ UNCHANGED <<data_queue, worker_thread, stop_event, reader_set, client_open,
                   is_connected, window_seconds, trend_buffer_max, series_all,
                   trend_buffer, _muted, _warmup_left, _last_a_int, status_var, btn,
                   ctl_h, w, nthreads, clock, g_valid, g_passed, g_run, call, presses>>

\* 368, the assignment self.trend_buffer = ...
Pump_store ==
    /\ ctl_pc = "pump_store"
    /\ trend_buffer' = ctl_tmp
    /\ ctl_tmp' = <<>>
    /\ ctl_pc' = "pump"
    /\ UNCHANGED <<data_queue, worker_thread, stop_event, reader_set, client_open,
                   is_connected, window_seconds, trend_buffer_max, series_all, _muted,
                   _warmup_left, _last_a_int, status_var, btn, ctl_h, w, nthreads,
                   clock, g_valid, g_passed, g_run, call, presses>>

\* ------------------------------------------------------- specification
NoCall == [op |-> "none"]

\* ModbusGUI.__init__ (83-136)
InitGui ==
    /\ data_queue = <<>>
    /\ worker_thread = 0
    /\ stop_event = FALSE
    /\ reader_set = FALSE
    /\ client_open = FALSE
    /\ is_connected = FALSE
    /\ window_seconds = LabelSeconds("60 s")
    /\ trend_buffer_max = Capacity(LabelSeconds("60 s"))
    /\ series_all = <<>>
    /\ trend_buffer = <<>>
    /\ _muted = FALSE
    /\ _warmup_left = None
    /\ _last_a_int = None
    /\ status_var = "Disconnected"
    /\ btn = [connect |-> TRUE, disconnect |-> FALSE, start |-> FALSE, stop |-> FALSE]
    /\ ctl_pc = "idle"
    /\ ctl_h = ""
    /\ ctl_tmp = <<>>
    /\ w = [t \in Threads |-> NoThread]
    /\ nthreads = 0
    /\ clock = 0
    /\ g_valid = 0
    /\ g_passed = 0
    /\ g_run = NoRun
    /\ presses = 0

Init == InitGui /\ call = NoCall

Worker == \E t \in Threads : WorkerStep(t)

Control ==
    \/ OnConnect
    \/ OnConnect_handshake
    \/ OnStart
    \/ OnStart_mute
    \/ OnStart_thread
    \/ OnStop
    \/ JoinDone
    \/ JoinTimeout
    \/ OnDisconnect
    \/ OnClose
    \/ OnDisconnect_restore
    \/ OnDisconnect_restore_io
    \/ OnDisconnect_finish
    \/ OnClearData
    \/ OnClearData_trend
    \/ OnClearData_last
    \/ OnTrendWindowChange
    \/ Pump
    \/ Pump_trim
    \/ Pump_store

Next == Worker \/ Control

Spec == Init /\ [][Next]_vars

\* Weak fairness of every worker thread: the scheduler runs a runnable
\* thread, a read returns within its timeout and a sleep ends
FairSpec == Spec /\ \A t \in Threads : WF_vars(WorkerStep(t))

\* ------------------------------ _code_to_A_int called on its own (387-414)
\* every register value against a few baselines, and a sample of register
\* values that decodes to every ampere value against every baseline
ConvertCalls ==
    [op : {"_code_to_A_int"}, raw : AllCodes, last : {None, 20},
     done : {FALSE}, ret : {None}, last_out : {None}]
    \cup
    [op : {"_code_to_A_int"}, raw : StrideCodes, last : {None} \cup 0..AmpMax,
     done : {FALSE}, ret : {None}, last_out : {None}]

InitConvert == InitGui /\ call \in ConvertCalls

CallConvert ==
    /\ call.op = "_code_to_A_int"
    /\ ~call.done
    /\ LET r == _code_to_A_int(call.raw, call.last)
       IN call' = [call EXCEPT !.done = TRUE, !.ret = r.ret, !.last_out = r.last]
    /\ UNCHANGED <<gui, presses>>

SpecConvert == InitConvert /\ [][CallConvert]_vars

\* -------------------------- on_save_excel, the changes-only pass (739-753)
\* Points of the histories the pass is called on: their timestamps and values.
HistoryTimes == 1..MaxHistory
HistoryValues == {5, 7, 9}

\* the histories: one to MaxHistory points in timestamp order, as
\* _worker_loop appends them (on_save_excel returns at 723 on an empty log)
Histories ==
    UNION {{h \in [1..n -> [ts : HistoryTimes, a : HistoryValues]] :
              \A i \in 1..(n - 1) : h[i].ts <= h[i + 1].ts} : n \in 1..MaxHistory}

\* 740: sorted(self.series_all, key=lambda x: x[0]), a stable sort
InsertByTs(s, p) ==
    LET k == Cardinality({j \in 1..Len(s) : s[j].ts <= p.ts})
    IN SubSeq(s, 1, k) \o <<p>> \o SubSeq(s, k + 1, Len(s))

sorted_rows(s) ==
    LET F[i \in 0..Len(s)] == IF i = 0 THEN <<>> ELSE InsertByTs(F[i - 1], s[i])
    IN F[Len(s)]

\* 746-751: the scan; last is the value of the point retained last
Changes(rows) ==
    LET F[i \in 0..Len(rows)] ==
            IF i = 0 THEN [changes |-> <<>>, last |-> None]
            ELSE IF F[i - 1].last = None \/ rows[i].a # F[i - 1].last
                 THEN [changes |-> Append(F[i - 1].changes, rows[i]), last |-> rows[i].a]
                 ELSE F[i - 1]
    IN F[Len(rows)].changes

\* 752: changes and changes[-1][0] != rows[-1][0]
NeedsFinalNever(changes, rows) == FALSE

NeedsFinalWhenSame(changes, rows) ==
    changes # <<>> /\ changes[Len(changes)].ts = rows[Len(rows)].ts

NeedsFinal(changes, rows) ==
    changes # <<>> /\ changes[Len(changes)].ts # rows[Len(rows)].ts

\* 745-753
Compress(rows) ==
    LET changes == Changes(rows)
    IN IF NeedsFinal(changes, rows) THEN Append(changes, rows[Len(rows)]) ELSE changes

CompressCalls ==
    [op : {"compress"}, history : Histories, step : {0}, rows : {<<>>},
     changes : {<<>>}, again : {<<>>}]

InitCompress == InitGui /\ call \in CompressCalls

\* the pass over a history
CallCompress ==
    /\ call.op = "compress"
    /\ call.step = 0
    /\ LET rows == sorted_rows(call.history)
       IN call' = [call EXCEPT !.step = 1, !.rows = rows, !.changes = Compress(rows)]
    /\ UNCHANGED <<gui, presses>>

\* the pass over its own output, taken as a history
CallCompressAgain ==
    /\ call.op = "compress"
    /\ call.step = 1
    /\ call' = [call EXCEPT !.step = 2, !.again = Compress(sorted_rows(call.changes))]
    /\ UNCHANGED <<gui, presses>>

NextCompress == CallCompress \/ CallCompressAgain

SpecCompress == InitCompress /\ [][NextCompress]_vars

\* =================================================================== claims
AnyAlive == \E t \in Threads : Alive(t)

ValuesIn(q) == {q[i].a : i \in {j \in 1..Len(q) : q[j].kind = "values"}}

\* C1: while a worker thread is alive, every change of series_all or of
\* trend_buffer is made by a step of a live worker thread, never by the
\* control thread (queue pump, on_clear_data, trend-window change).
C1_WorkerOnlyWriter ==
    [][(AnyAlive /\ (series_all' # series_all \/ trend_buffer' # trend_buffer))
         => \E t \in Threads : Alive(t) /\ w'[t] # w[t]]_vars

\* C2: whenever no thread is between its append to the trend buffer and the
\* trim that follows it, the trend buffer is no longer than its capacity
\* window_seconds * points_per_second.
C2_TrendWithinCapacity ==
    (/\ ctl_pc \notin {"pump_trim", "pump_store"}
     /\ \A t \in Threads : w[t].pc \notin {"trim", "trim_store"})
    => /\ trend_buffer_max = window_seconds * PointsPerSecond
       /\ Len(trend_buffer) <= trend_buffer_max

\* C3: a worker leaves its sampling loop only from the loop test with the
\* stop flag set (or because the process ends), never because a tick raised.
C3_LeavesLoopOnlyOnStop ==
    [][\A t \in Threads :
         (InLoop(t) /\ w'[t].pc \notin {"test", "read", "conv", "cmp", "ret_last",
                                        "store", "gate", "route", "trim",
                                        "trim_store", "killed"})
         => (w[t].pc = "test" /\ stop_event)]_vars

\* C4: the control thread and a worker thread are never inside calls of the
\* transport at the same time.
C4_TransportExclusive ==
    ~(CtlInTransport /\ \E t \in Threads : WorkerInTransport(t))

\* C5: once the stop flag is set while a worker is alive, the flag stays set
\* until that worker has ended, the worker leaves the loop at its next loop
\* test and it does end; it reaches the final put only through
\* _restore_channels, which leaves _muted false; its ending step puts one
\* status message, the only one it ever puts, and after it the thread writes
\* no buffer and puts no value message.
C5_Ordered ==
    \A t \in Threads :
        /\ w[t].pc = "dead" => (w[t].nstatus = 1 /\ ~w[t].late)
        /\ w[t].pc # "dead" => (w[t].nstatus = 0 /\ ~w[t].late)

C5_Step ==
    \A t \in Threads :
        /\ (stop_event /\ Alive(t) /\ w'[t].pc \notin {"dead", "killed"}) => stop_event'
        /\ (stop_event /\ w[t].pc = "test" /\ w'[t] # w[t])
              => w'[t].pc \in {"restore", "killed"}
        /\ (w[t].pc # "put_status" /\ w'[t].pc = "put_status")
              => (w[t].pc \in {"restore", "restore_io"} /\ ~_muted')
        /\ (w[t].pc # "dead" /\ w'[t].pc = "dead")
              => /\ Len(data_queue') = Len(data_queue) + 1
                 /\ data_queue'[Len(data_queue')].kind = "status"
                 /\ series_all' = series_all
                 /\ trend_buffer' = trend_buffer

C5_StopEndsWorker ==
    /\ []C5_Ordered
    /\ [][C5_Step]_vars
    /\ \A t \in Threads : (stop_event /\ Alive(t)) ~> ~Alive(t)

C5_Witness ==
    \E t \in Threads :
        /\ w[t].pc = "dead"
        /\ w[t].nstatus = 1
        /\ stop_event
        /\ status_var = "Stopped"
        /\ data_queue # <<>>
        /\ data_queue[Len(data_queue)].kind = "status"
        /\ series_all # <<>>

\* C6: at most one worker thread is alive.
C6_AtMostOneWorker == Cardinality({t \in Threads : Alive(t)}) <= 1

C6_Witness == nthreads = 2 /\ ~Alive(1) /\ Alive(2) /\ w[2].pc = "gate"

\* C7: every value in the full-history log, in a value message of the queue
\* and in a TrendPoint is an integer of 0..63.
C7_ValuesInRange ==
    /\ \A i \in 1..Len(series_all) : series_all[i].a \in 0..63
    /\ \A i \in 1..Len(trend_buffer) : trend_buffer[i].a \in 0..63
    /\ ValuesIn(data_queue) \subseteq 0..63

C7_Witness ==
    /\ \E i \in 1..Len(series_all) : series_all[i].a = 63
    /\ \E i \in 1..Len(trend_buffer) : trend_buffer[i].a = 63
    /\ 63 \in ValuesIn(data_queue)

\* C8: a finished call _code_to_A_int(c) returns None and leaves _last_a_int
\* as it was when c is 0xFFFF, 0xFFFE, 0x0000 or 0x7FFF or 0.000610*c lies
\* outside [3.8, 30.0]; otherwise, with no baseline, it returns the integer
\* of 0..63 nearest to (mA - 4.0)*63/16 clamped to [0, 63]: 0 up to 4.0 mA
\* and 63 from 20.0 mA on.
C8_ConvertAsReference ==
    (call.op = "_code_to_A_int" /\ call.done) =>
        LET c == call.raw
            uA == 610 * c
            rejected == c \in {65535, 65534, 0, 32767} \/ uA < 3800000 \/ uA > 30000000
            amps == 63 * (uA - 4000000)
            clamped == IF amps < 0 THEN 0
                       ELSE IF amps > 63 * 16000000 THEN 63 * 16000000 ELSE amps
        IN /\ rejected => (call.ret = None /\ call.last_out = call.last)
           /\ (~rejected /\ call.last = None) =>
                 /\ call.ret \in 0..63
                 /\ 2 * Abs(16000000 * call.ret - clamped) <= 16000000
                 /\ uA <= 4000000 => call.ret = 0
                 /\ uA >= 20000000 => call.ret = 63

C8_Witness ==
    /\ call.op = "_code_to_A_int"
    /\ call.done
    /\ call.raw = 20000
    /\ call.last = None
    /\ call.ret = 32

\* C9: a finished call whose code converts to the candidate c, with baseline
\* L: without a baseline it returns c; with |c - L| > 10 it returns L; with
\* |c - L| <= 10 it returns c; and the baseline it leaves is the value returned.
C9_SpikeFilter ==
    (call.op = "_code_to_A_int" /\ call.done /\ ConvertStage(call.raw) # None) =>
        LET c == ConvertStage(call.raw)
            L == call.last
            d == IF c < L THEN L - c ELSE c - L
        IN /\ L = None => call.ret = c
           /\ (L # None /\ d > 10) => call.ret = L
           /\ (L # None /\ d <= 10) => call.ret = c
           /\ call.last_out = call.ret

C9_Witness ==
    /\ call.op = "_code_to_A_int"
    /\ call.done
    /\ call.last = 20
    /\ ConvertStage(call.raw) = 30
    /\ call.ret = 30
    /\ call.last_out = 30

\* C10: in a run, with N the warm-up count on_start armed and v the
\* non-absent Readings that have reached the gate, the counter is
\* max(0, N - v), never negative, and max(0, v - N) Readings have passed.
C10_WarmupGate ==
    (nthreads > 0 \/ ctl_pc \in {"start_mute", "start_thread"}) =>
        /\ _warmup_left >= 0
        /\ _warmup_left = Max(0, WarmupToSkip - g_valid)
        /\ g_passed = Max(0, g_valid - WarmupToSkip)

C10_Witness ==
    /\ WarmupToSkip > 0
    /\ g_valid = WarmupToSkip + 1
    /\ g_passed = 1
    /\ _warmup_left = 0
    /\ Len(series_all) = 1

\* the values of a sequence of points
ValuesOf(points) == [i \in 1..Len(points) |-> points[i].a]

\* no worker is between the conversion of a sample and the warm-up gate
BetweenTicks == \A t \in Threads : w[t].pc \notin {"cmp", "ret_last", "store", "gate"}

\* the Spike Filter run over the candidates from an empty baseline: the first
\* passes, a later one passes unless it is more than 10 A from the output
\* before it, which then stands in for it
C11_Filtered(cands) ==
    LET F[i \in 0..Len(cands)] ==
            IF i = 0 THEN <<>>
            ELSE IF i = 1 THEN <<cands[1]>>
            ELSE IF Abs(cands[i] - F[i - 1][i - 1]) > 10
                 THEN Append(F[i - 1], F[i - 1][i - 1])
                 ELSE Append(F[i - 1], cands[i])
    IN F[Len(cands)]

C11_DropFirst(s, n) == IF Len(s) <= n THEN <<>> ELSE SubSeq(s, n + 1, Len(s))

\* C11: in a run that on_clear_data has not touched, between ticks, the values
\* of the full-history log are the Spike Filter's outputs over all samples
\* converted in the run, from an empty baseline, without the first
\* warm-up-count outputs.
C11_PipelineLog ==
    (~g_run.cleared /\ BetweenTicks /\ ctl_pc # "closed")
    => ValuesOf(series_all) = C11_DropFirst(C11_Filtered(g_run.cands), WarmupToSkip)

C11_Witness ==
    /\ ~g_run.cleared
    /\ BetweenTicks
    /\ ctl_pc # "closed"
    /\ Len(g_run.cands) = WarmupToSkip + 2
    /\ g_run.cands[1] = 5
    /\ g_run.cands[Len(g_run.cands) - 1] = 63
    /\ g_run.cands[Len(g_run.cands)] = 5
    /\ Len(series_all) = 2
    /\ ValuesOf(series_all) = <<5, 5>>

\* C12: a step that changes the configured trend window leaves the trend
\* buffer empty, with the capacity of the new window, and the full-history
\* log as it was.
C12_WindowChangeClears ==
    [][(window_seconds' # window_seconds)
         => /\ trend_buffer_max' = window_seconds' * PointsPerSecond
            /\ trend_buffer' = <<>>
            /\ series_all' = series_all]_vars

\* the positions of b that a is matched to, taking for each point of a the
\* first equal point of b after the match before it; 0 when there is none
C13_Match(a, b) ==
    LET G[i \in 0..Len(a)] ==
            IF i = 0 THEN 0
            ELSE IF i > 1 /\ G[i - 1] = 0 THEN 0
            ELSE LET later == {k \in (G[i - 1] + 1)..Len(b) : b[k] = a[i]}
                 IN IF later = {} THEN 0
                    ELSE CHOOSE k \in later : \A m \in later : k <= m
    IN G

C13_IsSubsequence(a, b) == \A i \in 1..Len(a) : C13_Match(a, b)[i] # 0

\* the first point, every point whose value differs from the value of the
\* point before it (which is the value retained last), and the final point
\* when its timestamp is not the last retained one
C13_Expected(rows) ==
    LET n == Len(rows)
        F[i \in 0..n] ==
            IF i = 0 THEN <<>>
            ELSE IF i = 1 \/ rows[i].a # rows[i - 1].a THEN Append(F[i - 1], rows[i])
            ELSE F[i - 1]
        kept == F[n]
    IN IF kept[Len(kept)].ts # rows[n].ts THEN Append(kept, rows[n]) ELSE kept

\* C13: the changes-only pass over a timestamp-ordered history returns the
\* first point, every point whose value differs from the value retained
\* last, and the final point if its timestamp differs from the last retained
\* one: a non-empty subsequence of the history, in order, with the history's
\* first and last timestamps.
C13_CompressorOutput ==
    (call.op = "compress" /\ call.step >= 1) =>
        /\ call.rows = call.history
        /\ call.changes = C13_Expected(call.rows)
        /\ call.changes # <<>>
        /\ C13_IsSubsequence(call.changes, call.rows)
        /\ call.changes[1].ts = call.rows[1].ts
        /\ call.changes[Len(call.changes)].ts = call.rows[Len(call.rows)].ts

C13_Witness ==
    /\ call.op = "compress"
    /\ call.step = 1
    /\ call.rows = <<[ts |-> 1, a |-> 9], [ts |-> 2, a |-> 9], [ts |-> 3, a |-> 9]>>
    /\ call.changes = <<[ts |-> 1, a |-> 9], [ts |-> 3, a |-> 9]>>

\* C14: the changes-only pass over its own output returns that output.
C14_CompressIdempotent ==
    (call.op = "compress" /\ call.step = 2) => call.again = call.changes

C14_Witness ==
    /\ call.op = "compress"
    /\ call.step = 2
    /\ call.history = <<[ts |-> 1, a |-> 5], [ts |-> 2, a |-> 7], [ts |-> 3, a |-> 7]>>
    /\ call.changes = call.history
    /\ call.again = call.changes

\* in a run not cleared, between ticks: when every candidate after the first
\* is more than 10 A from the first, the first is still the baseline and
\* every value of the log is the first
C15_Stale ==
    (/\ ~g_run.cleared
     /\ BetweenTicks
     /\ ctl_pc # "closed"
     /\ g_run.cands # <<>>
     /\ \A i \in 2..Len(g_run.cands) : Abs(g_run.cands[i] - g_run.cands[1]) > 10)
    => /\ _last_a_int = g_run.cands[1]
       /\ \A i \in 1..Len(series_all) : series_all[i].a = g_run.cands[1]

\* a candidate more than 10 A from the baseline L is answered with L, which
\* stays; the baseline leaves L only for None (on_start, on_clear_data) or
\* for a candidate within 10 A of L
C15_Step ==
    /\ \A t \in Threads :
         /\ (/\ w[t].pc = "cmp"
             /\ w'[t].pc \notin {"cmp", "killed"}
             /\ _last_a_int # None
             /\ Abs(w[t].A - _last_a_int) > 10)
            => (w'[t].pc = "ret_last" /\ _last_a_int' = _last_a_int)
         /\ (w[t].pc = "ret_last" /\ w'[t].pc = "gate")
            => (w'[t].a_int = _last_a_int /\ _last_a_int' = _last_a_int)
    /\ (_last_a_int # None /\ _last_a_int' # _last_a_int)
       => \/ _last_a_int' = None /\ w' = w
          \/ \E t \in Threads : /\ w[t].pc = "store"
                                /\ _last_a_int' = w[t].A
                                /\ Abs(w[t].A - _last_a_int) <= 10

\* C15: once a last-accepted value L exists, every candidate more than 10 A
\* from L is answered with L and leaves L in place, however many such
\* candidates follow one another; L is replaced only by a candidate within
\* 10 A of it, or dropped by on_start or on_clear_data.
C15_StaleBaseline == []C15_Stale /\ [][C15_Step]_vars

C15_Witness ==
    /\ ~g_run.cleared
    /\ BetweenTicks
    /\ Len(g_run.cands) >= 3
    /\ g_run.cands[1] = 5
    /\ \A i \in 2..Len(g_run.cands) : g_run.cands[i] = 63
    /\ _last_a_int = 5
    /\ series_all # <<>>
    /\ \A i \in 1..Len(series_all) : series_all[i].a = 5
    /\ \E t \in Threads : w[t].pc = "test"

\* C16: the timestamps of the trend buffer's points never decrease from one
\* entry to the next.
C16_TrendInSamplingOrder ==
    \A i \in 1..(Len(trend_buffer) - 1) : trend_buffer[i].ts <= trend_buffer[i + 1].ts

\* C17: a message that was put on data_queue before the trend buffer was last
\* emptied (by on_start or on_clear_data) adds no point to the trend buffer
\* when the queue pump takes it, and a status message put before the last
\* on_start does not change the status text.
C17_NoStaleDelivery ==
    [][(data_queue # <<>> /\ data_queue' = Tail(data_queue))
         => /\ (g_run.stale > 0 /\ Head(data_queue).kind = "values")
                => trend_buffer' = trend_buffer
            /\ (g_run.stale_run > 0 /\ Head(data_queue).kind = "status")
                => status_var' = status_var]_vars

\* C18: any two adjacent points of the full-history log differ by at most
\* 10 A.
C18_AdjacentWithinThreshold ==
    \A i \in 1..(Len(series_all) - 1) :
        Abs(series_all[i + 1].a - series_all[i].a) <= 10

====
